---- MODULE Spec2Model ----
(***************************************************************************)
(* A model of joe_qoi: the QOI decoder (QoiDecoder), the encoder scaffold  *)
(* (QoiEncoder) and its pack helpers, and the header codec.                *)
(*                                                                         *)
(* Byte positions keep Python's 0-based numbering: the byte the code reads *)
(* as qoi_data[i] is qoi_data[i + 1] here.                                 *)
(***************************************************************************)
EXTENDS Integers, Sequences, FiniteSets, TLC

VARIABLES
    qoi_data,     \* QoiDecoder.qoi_data: the bytes handed to the constructor
    ix,           \* QoiDecoder._ix
    width,        \* QoiDecoder.width
    height,       \* QoiDecoder.height
    has_alpha,    \* QoiDecoder.has_alpha
    all_linear,   \* QoiDecoder.all_linear
    lookup,       \* QoiDecoder._lookup: 64 slots
    px,           \* the local px of _decode
    alias,        \* the slot whose object px is bound to, or NoAlias
    pixels,       \* QoiDecoder.pixels
    pc,           \* "idle" | "new" | "decode" | "done" | "error"
    err,          \* the exception the constructor raised, "" if none
    tagPos,       \* history: positions read as a chunk's first byte
    operandPos,   \* history: positions read as a chunk's operand bytes
    lastOp,       \* history: the chunk form of the last loop iteration
    earlier,      \* history: how many decoders were constructed before this one
    encIn,        \* the image to encode: pixels, width, height, has_alpha, all_linear
    encCall,      \* "none" | "__init__" | "from_bytes": the entry point called
    rgba_pixels,  \* QoiEncoder.rgba_pixels: the list __init__ was handed
    packed_bytes, \* QoiEncoder.packed_bytes
    encPc,        \* "idle" | "ready" | "returned" | "raised"
    encErr,       \* the exception the encoder call raised, "" if none
    hdrIn,        \* the arguments of encode_header
    hdrBytes,     \* what encode_header returned
    hdrOut,       \* what decode_header returned for hdrBytes
    hdrPc,        \* "idle" | "ready" | "encoded" | "decoded"
    packOp,       \* the pack helper under call
    packArg,      \* its argument, for pack_index and pack_run
    packPrev,     \* its argument prev_px, for pack_diff and pack_luma
    packThis,     \* its argument this_px, for pack_diff and pack_luma
    packOut,      \* the bytes it returned
    packErr,      \* the message of the ValueError it raised, "" if none
    packPc,       \* "idle" | "ready" | "returned" | "raised"
    unpack,       \* what the decoder's loop made of the bytes the helper returned
    scOp,         \* the SignedChar operation under call
    scSelf,       \* the SignedChar instance __add__ / __sub__ is called on
    scArg,        \* the argument: value of SignedChar(value), other of __add__ / __sub__
    scOut,        \* the SignedChar instance returned
    scPc          \* "idle" | "ready" | "returned"

decVars == <<qoi_data, ix, width, height, has_alpha, all_linear, lookup, px,
             alias, pixels, pc, err, tagPos, operandPos, lastOp, earlier>>
encVars == <<encIn, encCall, rgba_pixels, packed_bytes, encPc, encErr>>
hdrVars == <<hdrIn, hdrBytes, hdrOut, hdrPc>>
packVars == <<packOp, packArg, packPrev, packThis, packOut, packErr, packPc, unpack>>
scVars == <<scOp, scSelf, scArg, scOut, scPc>>
vars == <<decVars, encVars, hdrVars, packVars, scVars>>

----------------------------------------------------------------------------
(* codecs.py:10-16 *)
QOI_OP_INDEX == 0
QOI_OP_DIFF == 64
QOI_OP_LUMA == 128
QOI_OP_RUN == 192
QOI_OP_RGB == 254
QOI_OP_RGBA == 255
QOI_MASK_2 == 192

HeaderLen == 14
EndLen == 8
LookupSize == 64
NoAlias == -1

\* b"qoif"
Magic == <<113, 111, 105, 102>>

\* b"\x00" * 7 + b"\x01"
EndMarker == <<0, 0, 0, 0, 0, 0, 0, 1>>

\* RgbaPixel(r, g, b, a)
RgbaPixel(r, g, b, a) == [r |-> r, g |-> g, b |-> b, a |-> a]

\* [RgbaPixel() for _ in range(64)]
FreshLookup == [k \in 0 .. (LookupSize - 1) |-> RgbaPixel(0, 0, 0, 0)]

qoi_color_hash_NoAlpha(r, g, b, a) == (r * 3 + g * 5 + b * 7) % 64

qoi_color_hash(r, g, b, a) == (r * 3 + g * 5 + b * 7 + a * 11) % 64

\* Python's seq[lo:hi] for 0 <= lo: the elements at positions lo .. hi-1 that exist
Slice(seq, lo, hi) ==
    LET top == IF hi < Len(seq) THEN hi ELSE Len(seq)
    IN  IF lo >= top THEN << >> ELSE SubSeq(seq, lo + 1, top)

\* Mask8 with the mask left out
Mask8_Unmasked(x) == x

\* x & 0xFF on a Python int
Mask8(x) == x % 256

\* this_byte & QOI_MASK_2
Tag2(b) == (b \div 64) * 64

\* this_byte & ~QOI_MASK_2
Low6(b) == b % 64

----------------------------------------------------------------------------
(* Header codec *)

\* PackU32 with the format "<I": the bytes in little-endian order
PackU32_LittleEndian(v) ==
    << v % 256, (v \div 256) % 256, (v \div 65536) % 256, (v \div 16777216) % 256 >>

\* struct.pack(">I", v)
PackU32(v) ==
    << (v \div 16777216) % 256, (v \div 65536) % 256, (v \div 256) % 256, v % 256 >>

\* struct.unpack(">I", <<b0, b1, b2, b3>>)
UnpackU32(b0, b1, b2, b3) == ((b0 * 256 + b1) * 256 + b2) * 256 + b3

\* QoiEncoder.encode_header
encode_header(w, h, alpha, linear) ==
    Magic \o PackU32(w) \o PackU32(h)
          \o << (IF alpha THEN 4 ELSE 3), (IF linear THEN 1 ELSE 0) >>

\* QoiDecoder.decode_header: exc is the exception raised, "" if it returned
HeaderRaise(e) ==
    [exc |-> e, width |-> 0, height |-> 0, has_alpha |-> FALSE, all_linear |-> FALSE]

decode_header(hb, validate) ==
    IF validate /\ Slice(hb, 0, 4) # Magic THEN HeaderRaise("ValueError")
    ELSE IF Len(hb) < 12 THEN HeaderRaise("struct.error")
    ELSE IF Len(hb) < 14 THEN HeaderRaise("struct.error")
    ELSE IF validate /\ hb[13] \notin {3, 4} THEN HeaderRaise("ValueError")
    ELSE IF validate /\ hb[14] \notin {0, 1} THEN HeaderRaise("ValueError")
    ELSE [exc |-> "",
          width |-> UnpackU32(hb[5], hb[6], hb[7], hb[8]),
          height |-> UnpackU32(hb[9], hb[10], hb[11], hb[12]),
          has_alpha |-> (hb[13] = 4),
          all_linear |-> (hb[14] = 1)]

\* read_header with validate left at its default, False
read_header_NoValidate(data) == decode_header(Slice(data, 0, HeaderLen), FALSE)

\* QoiDecoder._read_header
read_header(data) == decode_header(Slice(data, 0, HeaderLen), TRUE)

----------------------------------------------------------------------------
(* The decode loop.  A loop state s is the record of the locals and fields  *)
(* one iteration reads and writes: ix, px, alias, lookup, pixels, the three *)
(* history fields, exc (an exception left the loop) and bail (the early     *)
(* return of line 418).                                                     *)

\* LoopStart with px = RgbaPixel(), the default pixel
LoopStart_DefaultPx ==
    [ix |-> HeaderLen, px |-> RgbaPixel(0, 0, 0, 0), alias |-> NoAlias,
     lookup |-> FreshLookup, pixels |-> << >>, tagPos |-> {}, operandPos |-> {},
     lastOp |-> "none", exc |-> "", bail |-> FALSE]

\* lines 319-329 and 340-341: the state the loop is entered in
LoopStart ==
    [ix |-> HeaderLen, px |-> RgbaPixel(0, 0, 0, 255), alias |-> NoAlias,
     lookup |-> FreshLookup, pixels |-> << >>, tagPos |-> {}, operandPos |-> {},
     lastOp |-> "none", exc |-> "", bail |-> FALSE]

\* LoopCond with <= for <
LoopCond_Inclusive(i, len) == i <= len - EndLen

\* while self._ix < (self._qoi_data_len - 8)
LoopCond(i, len) == i < len - EndLen

\* ChunkForm with the 2-bit tags tested before the 8-bit ones
ChunkForm_TwoBitsFirst(b) ==
    IF Tag2(b) = QOI_OP_INDEX THEN "INDEX"
    ELSE IF Tag2(b) = QOI_OP_DIFF THEN "DIFF"
    ELSE IF Tag2(b) = QOI_OP_LUMA THEN "LUMA"
    ELSE IF Tag2(b) = QOI_OP_RUN THEN "RUN"
    ELSE IF b = QOI_OP_RGB THEN "RGB"
    ELSE "RGBA"

\* the branch of the if/elif chain a first byte selects
ChunkForm(b) ==
    IF b = QOI_OP_RGB THEN "RGB"
    ELSE IF b = QOI_OP_RGBA THEN "RGBA"
    ELSE IF Tag2(b) = QOI_OP_INDEX THEN "INDEX"
    ELSE IF Tag2(b) = QOI_OP_DIFF THEN "DIFF"
    ELSE IF Tag2(b) = QOI_OP_LUMA THEN "LUMA"
    ELSE "RUN"

\* QoiDecoder._qoi_op_luma
qoi_op_luma(first_byte, second_byte) ==
    LET d_g == Low6(first_byte) - 32
        dr_dg == ((second_byte \div 16) % 16) - 8
        db_dg == (second_byte % 16) - 8
    IN  [d_r |-> Mask8(d_g + dr_dg), d_g |-> d_g, d_b |-> Mask8(d_g + db_dg)]

\* Resolve with px left bound to the slot it was read from, as if line 412
\* stored px itself and not a copy
Resolve_KeepsBinding(s, p, al, form, nix, tag, ops, num) ==
    LET m == RgbaPixel(Mask8(p.r), Mask8(p.g), Mask8(p.b), Mask8(p.a))
        shared == IF al = NoAlias THEN s.lookup ELSE [s.lookup EXCEPT ![al] = m]
        hash_index == qoi_color_hash(m.r, m.g, m.b, m.a)
        out == Append(s.pixels, m)
    IN  [ix |-> nix, px |-> m,
         alias |-> al,
         lookup |-> [shared EXCEPT ![hash_index] = m],
         pixels |-> out,
         tagPos |-> s.tagPos \cup {tag},
         operandPos |-> s.operandPos \cup ops,
         lastOp |-> form, exc |-> "",
         bail |-> (Len(out) > num)]

\* lines 405-418: mask px, store a copy in its hash slot, append a copy.
\* p is px as the branch left it, before masking; px and the slot it is bound
\* to are one object, so the slot holds what px holds.
Resolve(s, p, al, form, nix, tag, ops, num) ==
    LET m == RgbaPixel(Mask8(p.r), Mask8(p.g), Mask8(p.b), Mask8(p.a))
        shared == IF al = NoAlias THEN s.lookup ELSE [s.lookup EXCEPT ![al] = m]
        hash_index == qoi_color_hash(m.r, m.g, m.b, m.a)
        out == Append(s.pixels, m)
    IN  [ix |-> nix, px |-> m,
         alias |-> IF al = hash_index THEN NoAlias ELSE al,
         lookup |-> [shared EXCEPT ![hash_index] = m],
         pixels |-> out,
         tagPos |-> s.tagPos \cup {tag},
         operandPos |-> s.operandPos \cup ops,
         lastOp |-> form, exc |-> "",
         bail |-> (Len(out) > num)]

\* an exception raised inside the iteration
LoopRaise(s, form, tag, e) ==
    [s EXCEPT !.ix = tag + 1, !.tagPos = s.tagPos \cup {tag}, !.lastOp = form, !.exc = e]

\* RunChunk with the cursor set back to the chunk's first byte and nothing
\* appended
RunChunk_Stalls(s, form, this_byte, i, tag) ==
    [s EXCEPT !.ix = tag, !.tagPos = s.tagPos \cup {tag}, !.lastOp = form]

\* RunChunk, storing px in its hash slot as the other branches do
RunChunk_Stores(s, form, this_byte, i, tag) ==
    LET run_len == Low6(this_byte) + 1
    IN  [s EXCEPT !.ix = i,
                  !.pixels = s.pixels \o [k \in 1 .. run_len |-> s.px],
                  !.lookup = [s.lookup EXCEPT
                                ![qoi_color_hash(s.px.r, s.px.g, s.px.b, s.px.a)] = s.px],
                  !.tagPos = s.tagPos \cup {tag},
                  !.lastOp = form]

\* lines 391-401: the QOI_OP_RUN branch, which ends in continue
RunChunk(s, form, this_byte, i, tag) ==
    LET run_len == Low6(this_byte) + 1
    IN  [s EXCEPT !.ix = i,
                  !.pixels = s.pixels \o [k \in 1 .. run_len |-> s.px],
                  !.tagPos = s.tagPos \cup {tag},
                  !.lastOp = form]

\* lines 343-418: one iteration of the while loop, entered with LoopCond true
ChunkStep(data, s, num) ==
    LET tag == s.ix
        this_byte == data[tag + 1]
        i == tag + 1
        form == ChunkForm(this_byte)
    IN  IF form = "RGB" THEN
            LET rgb == Slice(data, i, i + 3)
            IN  IF Len(rgb) # 3 THEN LoopRaise(s, form, tag, "ValueError")
                ELSE Resolve(s, [s.px EXCEPT !.r = rgb[1], !.g = rgb[2], !.b = rgb[3]],
                             s.alias, form, i + 3, tag, i .. (i + 2), num)
        ELSE IF form = "RGBA" THEN
            LET rgba == Slice(data, i, i + 4)
            IN  IF Len(rgba) # 4 THEN LoopRaise(s, form, tag, "ValueError")
                ELSE Resolve(s, RgbaPixel(rgba[1], rgba[2], rgba[3], rgba[4]),
                             s.alias, form, i + 4, tag, i .. (i + 3), num)
        ELSE IF form = "INDEX" THEN
            Resolve(s, s.lookup[this_byte], this_byte, form, i, tag, {}, num)
        ELSE IF form = "DIFF" THEN
            Resolve(s, [s.px EXCEPT !.r = @ + ((this_byte \div 16) % 4) - 2,
                                    !.g = @ + ((this_byte \div 4) % 4) - 2,
                                    !.b = @ + (this_byte % 4) - 2],
                    s.alias, form, i, tag, {}, num)
        ELSE IF form = "LUMA" THEN
            IF i >= Len(data) THEN LoopRaise(s, form, tag, "IndexError")
            ELSE LET d == qoi_op_luma(this_byte, data[i + 1])
                 IN  Resolve(s, [s.px EXCEPT !.r = @ + d.d_r, !.g = @ + d.d_g,
                                             !.b = @ + d.d_b],
                             s.alias, form, i + 1, tag, {i}, num)
        ELSE RunChunk(s, form, this_byte, i, tag)

\* TerminatorOK with endswith for ==: the end marker only has to end with what
\* remains
TerminatorOK_Suffix(remaining_data) ==
    /\ Len(remaining_data) <= EndLen
    /\ remaining_data = SubSeq(EndMarker, EndLen + 1 - Len(remaining_data), EndLen)

\* line 424: remaining_data == b"\x00" * 7 + b"\x01"
TerminatorOK(remaining_data) == remaining_data = EndMarker

\* CountMismatch with < for !=: only too few pixels count
CountMismatch_FewerOnly(n, num) == n < num

\* line 331: len(self.pixels) != self._num_pixels
CountMismatch(n, num) == n # num

\* lines 420-425 of _decode and 331-334 of __init__: what the constructor ends
\* in once the loop is left.  The failing assert evaluates its message, which
\* calls bytes.tohex(): the exception that leaves is AttributeError.
Finish(data, s, num) ==
    IF s.exc # "" THEN [pc |-> "error", err |-> s.exc]
    ELSE IF s.bail THEN [pc |-> "error", err |-> "IOError"]
    ELSE IF ~TerminatorOK(Slice(data, s.ix, Len(data)))
        THEN [pc |-> "error", err |-> "AttributeError"]
    ELSE IF CountMismatch(Len(s.pixels), num) THEN [pc |-> "error", err |-> "IOError"]
    ELSE [pc |-> "done", err |-> ""]

RECURSIVE DecodeLoop(_, _, _)
\* the while loop run to its end
DecodeLoop(data, s, num) ==
    IF s.exc # "" \/ s.bail \/ ~LoopCond(s.ix, Len(data)) THEN s
    ELSE DecodeLoop(data, ChunkStep(data, s, num), num)

\* QoiDecoder(qoi_data): the whole constructor, as a function of its argument
QoiDecoderNew(data) ==
    LET h == read_header(data)
    IN  IF h.exc # "" THEN
            [pc |-> "error", err |-> h.exc, width |-> 0, height |-> 0,
             has_alpha |-> FALSE, all_linear |-> FALSE, pixels |-> << >>]
        ELSE LET s == DecodeLoop(data, LoopStart, h.width * h.height)
                 f == Finish(data, s, h.width * h.height)
             IN  [pc |-> f.pc, err |-> f.err, width |-> h.width, height |-> h.height,
                  has_alpha |-> h.has_alpha, all_linear |-> h.all_linear,
                  pixels |-> s.pixels]

----------------------------------------------------------------------------
(* Encoder *)

\* QoiEncoder._encode
encode_body(pixs, w, h, alpha, linear) ==
    [exc |-> "NotImplementedError", packed_bytes |-> << >>]

\* QoiEncoder.__init__: stores its arguments, a fresh lookup table and an empty
\* bytearray, then calls _encode
QoiEncoderNew(pixs, w, h, alpha, linear) == encode_body(pixs, w, h, alpha, linear)

\* lines 277-283 of from_bytes: RgbaPixel(*bytes_in[offset : offset + bytes_per_pix]),
\* a missing field keeping its default 0, then a = 255 without alpha
from_bytes_pixels(bytes_in, alpha) ==
    LET bytes_per_pix == IF alpha THEN 4 ELSE 3
        n == (Len(bytes_in) + bytes_per_pix - 1) \div bytes_per_pix
        field(grp, k) == IF k <= Len(grp) THEN grp[k] ELSE 0
    IN  [j \in 1 .. n |->
            LET grp == Slice(bytes_in, (j - 1) * bytes_per_pix, j * bytes_per_pix)
            IN  RgbaPixel(field(grp, 1), field(grp, 2), field(grp, 3),
                          IF alpha THEN field(grp, 4) ELSE 255)]

\* the pack helpers return [out, err]: the bytes, or the ValueError's message
PackReturn(bs) == [out |-> bs, err |-> ""]
PackRaise(msg) == [out |-> << >>, err |-> msg]

\* QoiEncoder.pack_index
pack_index(index) ==
    IF ~(0 < index /\ index < 63)
        THEN PackRaise("QOI_OP_INDEX allowed range is [0, 63]")
    ELSE PackReturn(<< index >>)

\* QoiEncoder.pack_run; count - 1 has no bit in common with QOI_OP_RUN here
pack_run(count) ==
    IF ~(1 < count /\ count < 62)
        THEN PackRaise("QOI_OP_RUN allowed range is [1, 62]")
    ELSE PackReturn(<< QOI_OP_RUN + (count - 1) >>)

\* pack_rgb with the bytes in the order b, g, r
pack_rgb_Bgr(pix) == PackReturn(<< QOI_OP_RGB, pix.b, pix.g, pix.r >>)

\* QoiEncoder.pack_rgb; pix is its argument px
pack_rgb(pix) == PackReturn(<< QOI_OP_RGB, pix.r, pix.g, pix.b >>)

\* QoiEncoder.pack_rgba
pack_rgba(pix) == PackReturn(<< QOI_OP_RGBA, pix.r, pix.g, pix.b, pix.a >>)

\* wrap_around with the wrap left out: the plain difference
wrap_around_Plain(val) == val

\* codecs.py wrap_around: one step of 256 towards [-128, 127]
wrap_around(val) ==
    IF val > 127 THEN val - 256
    ELSE IF val < (0 - 128) THEN val + 256
    ELSE val

\* QoiEncoder.pack_diff; the three fields or-ed into the byte do not overlap
pack_diff(prev_px, this_px) ==
    LET dr == wrap_around(this_px.r - prev_px.r)
        dg == wrap_around(this_px.g - prev_px.g)
        db == wrap_around(this_px.b - prev_px.b)
    IN  IF ~(\A d \in {dr, dg, db} : (0 - 2) <= d /\ d <= 1)
            THEN PackRaise("QOI_OP_DIFF all deltas must be in range [-2, 1]")
        ELSE PackReturn(<< QOI_OP_DIFF + (dr + 2) * 16 + (dg + 2) * 4 + (db + 2) >>)

\* the tail of pack_luma, from the offsets on
luma_offsets(dr, dg, db) ==
    LET dr_dg == wrap_around(dr - dg)
        db_dg == wrap_around(db - dg)
    IN  IF ~(\A d \in {dr_dg, db_dg} : (0 - 8) <= d /\ d <= 7)
            THEN PackRaise(
                "QOI_OP_LUMA red, blue offsets from green must be in range [-8, 7]")
        ELSE PackReturn(<< QOI_OP_LUMA + (dg + 32), (dr_dg + 8) * 16 + (db_dg + 8) >>)

\* pack_luma with the test of the green delta left out
pack_luma_GreenUnchecked(prev_px, this_px) ==
    luma_offsets(wrap_around(this_px.r - prev_px.r),
                 wrap_around(this_px.g - prev_px.g),
                 wrap_around(this_px.b - prev_px.b))

\* QoiEncoder.pack_luma
pack_luma(prev_px, this_px) ==
    LET dr == wrap_around(this_px.r - prev_px.r)
        dg == wrap_around(this_px.g - prev_px.g)
        db == wrap_around(this_px.b - prev_px.b)
    IN  IF ~((0 - 32) <= dg /\ dg <= 31)
            THEN PackRaise("QOI_OP_LUMA green delta must be in range [-32, 31]")
        ELSE luma_offsets(dr, dg, db)

----------------------------------------------------------------------------
(* types.py: SignedChar.  An instance is modelled by its integer value. *)

\* SignedChar._wrap_around
SignedChar_wrap_around(value) ==
    IF value > 127 THEN value - 256
    ELSE IF value < (0 - 128) THEN value + 256
    ELSE value

\* SignedChar.__new__
SignedChar(value) == SignedChar_wrap_around(value)

\* SignedChar.__add__: int addition, _wrap_around, then the class called on the
\* result
SignedChar_add(self, other) == SignedChar(SignedChar_wrap_around(self + other))

\* SignedChar.__sub__
SignedChar_sub(self, other) == SignedChar(SignedChar_wrap_around(self - other))

----------------------------------------------------------------------------
(* Inputs *)

\* the most pieces a chunk stream is put together from
MaxChunks == 3
\* how far beyond their documented range the pack helpers' arguments are drawn
PackMargin == 3

\* <<width, height>> of the streams the decoder is given
Sizes == { <<0, 1>>, <<1, 0>>, <<1, 1>>, <<2, 1>>, <<1, 3>> }
\* <<channels, colorspace>>
Formats == { <<3, 0>>, <<4, 1>> }

\* whole chunks of every form, and chunks cut short of their operands
Pieces ==
    { << 0 >>, << 1 >>, << 63 >>,          \* QOI_OP_INDEX 0, 1, 63
      << 71 >>,                            \* QOI_OP_DIFF  -2, -1, +1
      << 167, 47 >>,                       \* QOI_OP_LUMA  dg 7, dr-dg -6, db-dg 7
      << 192 >>, << 193 >>,                \* QOI_OP_RUN   1, 2
      << 254, 10, 100, 200 >>,             \* QOI_OP_RGB
      << 255, 10, 100, 200, 50 >>,         \* QOI_OP_RGBA
      << 254, 10, 100 >>, << 167 >>, << 255, 10 >> }

RECURSIVE Bodies(_)
Bodies(n) ==
    IF n = 0 THEN { << >> }
    ELSE LET shorter == Bodies(n - 1)
         IN  shorter \cup { b \o p : b \in shorter, p \in Pieces }

\* a wrong end marker, and one cut short
BadTrailers == { << 0, 0, 0, 0, 0, 0, 0, 0 >>, << 0, 0, 0, 0, 0, 0, 1 >> }

HeaderBytes(w, h, channels, colorspace) ==
    Magic \o << 0, 0, 0, w, 0, 0, 0, h, channels, colorspace >>

\* a good header and a chunk stream, closed by the end marker or, the shortest
\* chunk streams, by a bad one
GoodStreams ==
    { HeaderBytes(sz[1], sz[2], f[1], f[2]) \o b \o EndMarker :
        sz \in Sizes, f \in Formats, b \in Bodies(MaxChunks) }
    \cup
    { HeaderBytes(sz[1], sz[2], f[1], f[2]) \o b \o t :
        sz \in Sizes, f \in Formats, b \in Bodies(MaxChunks - 2), t \in BadTrailers }

\* streams with a bad header; the full-length ones go on with one QOI_OP_RUN and
\* the end marker, a 1x1 image were the header accepted
BadStreams ==
    LET rest == << 192 >> \o EndMarker
        good == HeaderBytes(1, 1, 4, 0)
    IN  { SubSeq(good, 1, n) : n \in {0, 3, 4, 11, 12, 13} }
        \cup { << 113, 111, 105, 103 >> \o SubSeq(good, 5, 14) \o rest,
               HeaderBytes(1, 1, 2, 0) \o rest,
               HeaderBytes(1, 1, 5, 0) \o rest,
               HeaderBytes(1, 1, 4, 2) \o rest,
               HeaderBytes(1, 1, 3, 255) \o rest }

\* images of 62 and 63 pixels in one row, for the longest QOI_OP_RUN, next to
\* the two 8-bit tags
LongRunBodies ==
    { << 253 >>, << 253, 192 >>, << 192, 253 >>,
      << 254, 10, 100, 200, 253 >>, << 253, 254, 10, 100, 200 >>,
      << 253, 255, 10, 100, 200, 50 >>, << 254, 10, 100, 200, 252 >> }
LongRunStreams ==
    { HeaderBytes(w, 1, f[1], f[2]) \o b \o EndMarker :
        w \in {62, 63}, f \in Formats, b \in LongRunBodies }

\* images of four pixels in one row: QOI_OP_INDEX chunks on slots written
\* before, with chunks that change the pixel in between
RebindBodies ==
    { << 254, 10, 100, 200, 63, 71, 63 >>,
      << 254, 10, 100, 200, 63, 167, 47, 63 >>,
      << 254, 10, 100, 200, 71, 63, 59 >>,
      << 255, 10, 100, 200, 50, 48, 71, 48 >> }
RebindStreams ==
    { HeaderBytes(4, 1, f[1], f[2]) \o b \o EndMarker :
        f \in Formats, b \in RebindBodies }

DecoderInputs == GoodStreams \cup BadStreams \cup LongRunStreams \cup RebindStreams

\* how many decoders are constructed before the last one
MaxEarlier == 1
\* the streams after whose decode another decoder is constructed: decodes that
\* succeed and decodes that fail, with pixels, a previous pixel and table
\* entries left behind
FirstStreams == LongRunStreams
\* the streams handed to the later decoders, one for each form of first chunk
\* that reads the previous pixel, in both channel counts
NextStreams ==
    { HeaderBytes(2, 1, 3, 0) \o << 193 >> \o EndMarker,
      HeaderBytes(1, 1, 4, 1) \o << 71 >> \o EndMarker,
      HeaderBytes(1, 1, 3, 0) \o << 167, 47 >> \o EndMarker,
      HeaderBytes(1, 1, 4, 1) \o << 254, 10, 100, 200 >> \o EndMarker,
      HeaderBytes(1, 1, 4, 1) \o << 63 >> \o EndMarker }

\* images for the encoder
Palette == { RgbaPixel(0, 0, 0, 255), RgbaPixel(10, 100, 200, 255),
             RgbaPixel(10, 100, 200, 50) }
EncSizes == { <<0, 1>>, <<1, 0>>, <<1, 1>>, <<2, 1>>, <<1, 3>> }
ImagesOfSize(sz) ==
    { [pixels |-> ps, width |-> sz[1], height |-> sz[2], has_alpha |-> al,
       all_linear |-> li] :
        al \in BOOLEAN, li \in BOOLEAN, ps \in [1 .. (sz[1] * sz[2]) -> Palette] }
Images == UNION { ImagesOfSize(sz) : sz \in EncSizes }

\* the flat buffer a caller hands to from_bytes for a pixel list
FlatBytes(ps, alpha) ==
    LET bpp == IF alpha THEN 4 ELSE 3
        chan(p, c) == IF c = 0 THEN p.r ELSE IF c = 1 THEN p.g
                      ELSE IF c = 2 THEN p.b ELSE p.a
    IN  [i \in 1 .. (Len(ps) * bpp) |-> chan(ps[((i - 1) \div bpp) + 1], (i - 1) % bpp)]

\* widths and heights for the header codec
U32Samples == { 0, 1, 255, 256, 600, 800, 65535, 65536, 16777216, 2147483647 }

PackArgs == (0 - PackMargin) .. (63 + PackMargin)

\* pixel pairs for pack_diff and pack_luma: a previous pixel, and a current one
\* some steps away from it in each channel, modulo 256; the steps stand on both
\* sides of every limit the two helpers test
PackPrevs == { RgbaPixel(0, 0, 0, 255), RgbaPixel(5, 5, 5, 255),
               RgbaPixel(100, 100, 100, 255), RgbaPixel(250, 250, 250, 255),
               RgbaPixel(255, 2, 255, 255), RgbaPixel(128, 127, 1, 255) }
ChannelSteps == { 0 - 128, 0 - 41, 0 - 40, 0 - 33, 0 - 32, 0 - 9, 0 - 8, 0 - 3, 0 - 2,
                  0 - 1, 0, 1, 2, 7, 8, 14, 15, 20, 25, 31, 32, 39, 40, 127 }
StepPixel(p, sr, sg, sb) ==
    RgbaPixel((p.r + sr) % 256, (p.g + sg) % 256, (p.b + sb) % 256, p.a)

\* how far from 0 the values handed to SignedChar(value) go
ScMax == 400
ScValues == (0 - ScMax) .. ScMax
\* the instances __add__ and __sub__ are called on: whatever SignedChar returns
ScSelves == { SignedChar(v) : v \in ScValues }
\* the other operand of __add__ and __sub__
ScOthers == { 0 - 700, 0 - 513, 0 - 512, 0 - 385, 0 - 384, 0 - 257, 0 - 256, 0 - 129,
              0 - 128, 0 - 10, 0 - 1, 0, 1, 10, 127, 128, 255, 256, 383, 384, 511,
              512, 700 }

\* pixels for pack_rgb and pack_rgba, and the previous pixels they follow
PackChannels == { 0, 10, 200, 255 }
PackAlphas == { 0, 50, 255 }
PackPixels ==
    { RgbaPixel(r, g, b, a) :
        r \in PackChannels, g \in PackChannels, b \in PackChannels, a \in PackAlphas }
PackPrevsAlpha == PackPrevs \cup { RgbaPixel(10, 100, 200, 50) }

\* the lookup table the bytes of pack_index are decoded against: each previous
\* pixel of PackPrevsAlpha in the slot it hashes to
PackLookup ==
    [k \in 0 .. (LookupSize - 1) |->
        IF \E p \in PackPrevsAlpha : qoi_color_hash(p.r, p.g, p.b, p.a) = k
          THEN CHOOSE p \in PackPrevsAlpha : qoi_color_hash(p.r, p.g, p.b, p.a) = k
          ELSE RgbaPixel(0, 0, 0, 0)]

\* nothing decoded yet
NoUnpack ==
    [pc |-> "none", form |-> "none", px |-> RgbaPixel(0, 0, 0, 0), pixels |-> << >>,
     ix |-> 0, exc |-> ""]

----------------------------------------------------------------------------
(* Initial states *)

NoImage == [pixels |-> << >>, width |-> 0, height |-> 0, has_alpha |-> FALSE,
            all_linear |-> FALSE]
NoHeader == [exc |-> "", width |-> 0, height |-> 0, has_alpha |-> FALSE,
             all_linear |-> FALSE]

DecIdle ==
    /\ ix = 0 /\ width = 0 /\ height = 0
    /\ has_alpha = FALSE /\ all_linear = FALSE
    /\ lookup = FreshLookup /\ px = RgbaPixel(0, 0, 0, 0) /\ alias = NoAlias
    /\ pixels = << >> /\ err = ""
    /\ tagPos = {} /\ operandPos = {} /\ lastOp = "none" /\ earlier = 0

EncIdle ==
    /\ encIn = NoImage /\ encCall = "none" /\ rgba_pixels = << >>
    /\ packed_bytes = << >> /\ encPc = "idle" /\ encErr = ""

HdrIdle ==
    /\ hdrIn = NoHeader /\ hdrBytes = << >> /\ hdrOut = NoHeader /\ hdrPc = "idle"

PackIdle ==
    /\ packOp = "none" /\ packArg = 0 /\ packOut = << >> /\ packErr = ""
    /\ packPrev = RgbaPixel(0, 0, 0, 0) /\ packThis = RgbaPixel(0, 0, 0, 0)
    /\ packPc = "idle" /\ unpack = NoUnpack

ScIdle ==
    /\ scOp = "none" /\ scSelf = 0 /\ scArg = 0 /\ scOut = 0 /\ scPc = "idle"

\* a decoder about to be constructed on some bytes
Init ==
    /\ qoi_data \in DecoderInputs
    /\ pc = "new"
    /\ DecIdle /\ EncIdle /\ HdrIdle /\ PackIdle /\ ScIdle

\* an encoder about to be constructed on some image
InitEncode ==
    /\ encIn \in Images
    /\ encCall = "none" /\ rgba_pixels = << >> /\ packed_bytes = << >>
    /\ encPc = "ready" /\ encErr = ""
    /\ qoi_data = << >> /\ pc = "idle"
    /\ DecIdle /\ HdrIdle /\ PackIdle /\ ScIdle

\* a header about to be encoded
InitHeader ==
    /\ hdrIn \in { [exc |-> "", width |-> w, height |-> h, has_alpha |-> al,
                    all_linear |-> li] :
                     w \in U32Samples, h \in U32Samples, al \in BOOLEAN, li \in BOOLEAN }
    /\ hdrBytes = << >> /\ hdrOut = NoHeader /\ hdrPc = "ready"
    /\ qoi_data = << >> /\ pc = "idle"
    /\ DecIdle /\ EncIdle /\ PackIdle /\ ScIdle

\* a pack helper about to be called
InitPack ==
    /\ \/ /\ packOp \in {"pack_index", "pack_run"}
          /\ packArg \in PackArgs
          /\ packPrev \in PackPrevsAlpha /\ packThis = RgbaPixel(0, 0, 0, 0)
       \/ /\ packOp \in {"pack_rgb", "pack_rgba"}
          /\ packArg = 0
          /\ packPrev \in PackPrevsAlpha
          /\ packThis \in PackPixels
       \/ /\ packOp \in {"pack_diff", "pack_luma"}
          /\ packArg = 0
          /\ packPrev \in PackPrevs
          /\ \E sr \in ChannelSteps, sg \in ChannelSteps, sb \in ChannelSteps :
                packThis = StepPixel(packPrev, sr, sg, sb)
    /\ packOut = << >> /\ packErr = "" /\ packPc = "ready" /\ unpack = NoUnpack
    /\ qoi_data = << >> /\ pc = "idle"
    /\ DecIdle /\ EncIdle /\ HdrIdle /\ ScIdle

\* a SignedChar about to be made, or about to be added to or subtracted from
InitSigned ==
    /\ \/ /\ scOp = "SignedChar"
          /\ scSelf = 0
          /\ scArg \in ScValues
       \/ /\ scOp \in {"__add__", "__sub__"}
          /\ scSelf \in ScSelves
          /\ scArg \in ScOthers
    /\ scOut = 0 /\ scPc = "ready"
    /\ qoi_data = << >> /\ pc = "idle"
    /\ DecIdle /\ EncIdle /\ HdrIdle /\ PackIdle

----------------------------------------------------------------------------
(* Decoder actions *)

\* the loop state held in the variables
CurLoop ==
    [ix |-> ix, px |-> px, alias |-> alias, lookup |-> lookup, pixels |-> pixels,
     tagPos |-> tagPos, operandPos |-> operandPos, lastOp |-> lastOp,
     exc |-> "", bail |-> FALSE]

SetLoop(s) ==
    /\ ix' = s.ix /\ px' = s.px /\ alias' = s.alias /\ lookup' = s.lookup
    /\ pixels' = s.pixels /\ tagPos' = s.tagPos /\ operandPos' = s.operandPos
    /\ lastOp' = s.lastOp

\* QoiDecoder.__init__ up to the first test of the while loop
ReadHeader ==
    /\ pc = "new"
    /\ LET h == read_header(qoi_data)
       IN  IF h.exc # ""
             THEN /\ pc' = "error" /\ err' = h.exc
                  /\ UNCHANGED <<ix, width, height, has_alpha, all_linear, lookup, px,
                                 alias, pixels, tagPos, operandPos, lastOp>>
             ELSE /\ pc' = "decode" /\ err' = ""
                  /\ width' = h.width /\ height' = h.height
                  /\ has_alpha' = h.has_alpha /\ all_linear' = h.all_linear
                  /\ SetLoop(LoopStart)
    /\ UNCHANGED <<qoi_data, earlier, encVars, hdrVars, packVars, scVars>>

\* the loop goes round once more, and the next first byte selects the given form
AtChunk(form) ==
    /\ pc = "decode"
    /\ LoopCond(ix, Len(qoi_data))
    /\ ChunkForm(qoi_data[ix + 1]) = form

\* one iteration of the while loop; an exception or the early return ends the
\* constructor in the same step
Iterate ==
    /\ LET s == ChunkStep(qoi_data, CurLoop, width * height)
       IN  /\ SetLoop(s)
           /\ IF s.exc # "" \/ s.bail
                THEN LET f == Finish(qoi_data, s, width * height)
                     IN  pc' = f.pc /\ err' = f.err
                ELSE UNCHANGED <<pc, err>>
    /\ UNCHANGED <<qoi_data, earlier, width, height, has_alpha, all_linear, encVars,
                   hdrVars, packVars, scVars>>

DecodeRGB ==
    /\ AtChunk("RGB")
    /\ Iterate

DecodeRGBA ==
    /\ AtChunk("RGBA")
    /\ Iterate

DecodeIndex ==
    /\ AtChunk("INDEX")
    /\ Iterate

DecodeDiff ==
    /\ AtChunk("DIFF")
    /\ Iterate

DecodeLuma ==
    /\ AtChunk("LUMA")
    /\ Iterate

DecodeRun ==
    /\ AtChunk("RUN")
    /\ Iterate

\* the loop is left: the end marker check, then __init__'s pixel count check
EndDecode ==
    /\ pc = "decode"
    /\ ~LoopCond(ix, Len(qoi_data))
    /\ LET f == Finish(qoi_data, CurLoop, width * height)
       IN  pc' = f.pc /\ err' = f.err
    /\ UNCHANGED <<qoi_data, earlier, ix, width, height, has_alpha, all_linear,
                   lookup, px, alias, pixels, tagPos, operandPos, lastOp, encVars,
                   hdrVars, packVars, scVars>>

\* QoiDecoder(qoi_data) once more, after an earlier decoder was constructed or
\* failed: lines 318-320 of the new call.  The new object has no field yet;
\* the variables keep what the earlier decoder left, so that anything __init__
\* and _decode do not set afresh would show.  The histories start anew.
NewDecoder ==
    /\ pc \in {"done", "error"}
    /\ earlier < MaxEarlier
    /\ qoi_data \in FirstStreams \cup NextStreams
    /\ qoi_data' \in NextStreams
    /\ ix' = 0
    /\ pc' = "new"
    /\ earlier' = earlier + 1
    /\ tagPos' = {} /\ operandPos' = {} /\ lastOp' = "none"
    /\ UNCHANGED <<width, height, has_alpha, all_linear, lookup, px, alias, pixels,
                   err, encVars, hdrVars, packVars, scVars>>

Next ==
    \/ NewDecoder
    \/ ReadHeader
    \/ DecodeRGB
    \/ DecodeRGBA
    \/ DecodeIndex
    \/ DecodeDiff
    \/ DecodeLuma
    \/ DecodeRun
    \/ EndDecode

Spec == Init /\ [][Next]_vars

\* the steps of one constructor call
DecoderStep ==
    \/ ReadHeader
    \/ DecodeRGB
    \/ DecodeRGBA
    \/ DecodeIndex
    \/ DecodeDiff
    \/ DecodeLuma
    \/ DecodeRun
    \/ EndDecode

\* the constructor runs on without suspending: a call under way takes its next
\* step
SpecLive == Init /\ [][Next]_vars /\ WF_vars(DecoderStep)

----------------------------------------------------------------------------
(* Encoder actions *)

EncCall(via, pixs) ==
    /\ encCall' = via
    /\ rgba_pixels' = pixs
    /\ LET r == QoiEncoderNew(pixs, encIn.width, encIn.height, encIn.has_alpha,
                              encIn.all_linear)
       IN  /\ packed_bytes' = r.packed_bytes
           /\ encErr' = r.exc
           /\ encPc' = IF r.exc = "" THEN "returned" ELSE "raised"
    /\ UNCHANGED <<encIn, decVars, hdrVars, packVars, scVars>>

\* QoiEncoder(rgba_pixels, width, height, has_alpha, all_linear)
EncConstruct ==
    /\ encPc = "ready"
    /\ EncCall("__init__", encIn.pixels)

\* QoiEncoder.from_bytes(bytes_in, width, height, has_alpha, all_linear)
EncFromBytes ==
    /\ encPc = "ready"
    /\ EncCall("from_bytes",
               from_bytes_pixels(FlatBytes(encIn.pixels, encIn.has_alpha),
                                 encIn.has_alpha))

NextEncode == EncConstruct \/ EncFromBytes

SpecEncode == InitEncode /\ [][NextEncode]_vars

----------------------------------------------------------------------------
(* Header codec actions *)

EncodeHeader ==
    /\ hdrPc = "ready"
    /\ hdrBytes' = encode_header(hdrIn.width, hdrIn.height, hdrIn.has_alpha,
                                 hdrIn.all_linear)
    /\ hdrPc' = "encoded"
    /\ UNCHANGED <<hdrIn, hdrOut, decVars, encVars, packVars, scVars>>

DecodeHeader ==
    /\ hdrPc = "encoded"
    /\ \E validate \in BOOLEAN : hdrOut' = decode_header(hdrBytes, validate)
    /\ hdrPc' = "decoded"
    /\ UNCHANGED <<hdrIn, hdrBytes, decVars, encVars, packVars, scVars>>

NextHeader == EncodeHeader \/ DecodeHeader

SpecHeader == InitHeader /\ [][NextHeader]_vars

----------------------------------------------------------------------------
(* Pack helper actions *)

PackCall(r) ==
    /\ packOut' = r.out
    /\ packErr' = r.err
    /\ packPc' = IF r.err = "" THEN "returned" ELSE "raised"
    /\ UNCHANGED <<packOp, packArg, packPrev, packThis, unpack, decVars, encVars,
                   hdrVars, scVars>>

PackIndex ==
    /\ packPc = "ready" /\ packOp = "pack_index"
    /\ PackCall(pack_index(packArg))

PackRun ==
    /\ packPc = "ready" /\ packOp = "pack_run"
    /\ PackCall(pack_run(packArg))

PackDiff ==
    /\ packPc = "ready" /\ packOp = "pack_diff"
    /\ PackCall(pack_diff(packPrev, packThis))

PackLuma ==
    /\ packPc = "ready" /\ packOp = "pack_luma"
    /\ PackCall(pack_luma(packPrev, packThis))

PackRgb ==
    /\ packPc = "ready" /\ packOp = "pack_rgb"
    /\ PackCall(pack_rgb(packThis))

PackRgba ==
    /\ packPc = "ready" /\ packOp = "pack_rgba"
    /\ PackCall(pack_rgba(packThis))

\* one iteration of the decoder's loop on the bytes the helper returned, the
\* end marker behind them, entered with previous pixel packPrev and the table
\* PackLookup
PackDecode ==
    /\ packPc = "returned" /\ unpack.pc = "none"
    /\ LET data == packOut \o EndMarker
           s0 == [LoopStart EXCEPT !.ix = 0, !.px = packPrev, !.lookup = PackLookup]
       IN  /\ LoopCond(s0.ix, Len(data))
           /\ LET s == ChunkStep(data, s0, LookupSize)
              IN  unpack' = [pc |-> "decoded", form |-> s.lastOp, px |-> s.px,
                             pixels |-> s.pixels, ix |-> s.ix, exc |-> s.exc]
    /\ UNCHANGED <<packOp, packArg, packPrev, packThis, packOut, packErr, packPc,
                   decVars, encVars, hdrVars, scVars>>

NextPack ==
    PackIndex \/ PackRun \/ PackDiff \/ PackLuma \/ PackRgb \/ PackRgba \/ PackDecode

SpecPack == InitPack /\ [][NextPack]_vars

----------------------------------------------------------------------------
(* SignedChar actions *)

ScReturn(res) ==
    /\ scOut' = res
    /\ scPc' = "returned"
    /\ UNCHANGED <<scOp, scSelf, scArg, decVars, encVars, hdrVars, packVars>>

ScNew ==
    /\ scPc = "ready" /\ scOp = "SignedChar"
    /\ ScReturn(SignedChar(scArg))

ScAdd ==
    /\ scPc = "ready" /\ scOp = "__add__"
    /\ ScReturn(SignedChar_add(scSelf, scArg))

ScSub ==
    /\ scPc = "ready" /\ scOp = "__sub__"
    /\ ScReturn(SignedChar_sub(scSelf, scArg))

NextSigned == ScNew \/ ScAdd \/ ScSub

SpecSigned == InitSigned /\ [][NextSigned]_vars

----------------------------------------------------------------------------
(* Claims *)

\* C1: round trip.  Whenever an encoder has been constructed from an image (pixels
\* of length width*height, width, height, has_alpha, all_linear), it returned, and
\* QoiDecoder on its packed_bytes succeeds with the same width, height, has_alpha,
\* all_linear and the same pixel sequence.
C1_RoundTrip ==
    encPc \in {"returned", "raised"} =>
        /\ encPc = "returned"
        /\ LET d == QoiDecoderNew(packed_bytes)
           IN  /\ d.pc = "done"
               /\ d.width = encIn.width /\ d.height = encIn.height
               /\ d.has_alpha = encIn.has_alpha /\ d.all_linear = encIn.all_linear
               /\ d.pixels = rgba_pixels

\* C2: the encoder is total.  For every legal input (width, height >= 1, width*height
\* pixels with 8-bit channels) the call of QoiEncoder, directly or through
\* from_bytes, returns without raising and leaves an encoded stream (at least the
\* header and the end marker) in packed_bytes.
C2_EncoderTotal ==
    (/\ encPc \in {"returned", "raised"}
     /\ encIn.width >= 1 /\ encIn.height >= 1
     /\ Len(encIn.pixels) = encIn.width * encIn.height)
    => /\ encPc = "returned"
       /\ encErr = ""
       /\ Len(packed_bytes) >= HeaderLen + EndLen

\* C3: whenever the decoder's construction succeeds, the pixel list has exactly
\* width*height elements; a chunk stream that yields fewer or more, an
\* overshooting final QOI_OP_RUN included, never ends in a decoder object.
C3_PixelCount == pc = "done" => Len(pixels) = width * height

\* a decode that succeeded on two pixels, the last chunk a QOI_OP_RUN
C3_Witness ==
    /\ pc = "done" /\ lastOp = "RUN"
    /\ Len(pixels) = 2 /\ width * height = 2

\* C4: no byte of the final 8 is ever read as a chunk's first byte, and whenever
\* construction succeeds on L bytes the cursor stands at L-8 and bytes [L-8, L) are
\* 00 00 00 00 00 00 00 01.
C4_Terminator ==
    /\ \A t \in tagPos : t < Len(qoi_data) - 8
    /\ pc = "done" =>
          /\ ix = Len(qoi_data) - 8
          /\ Len(qoi_data) >= 8
          /\ SubSeq(qoi_data, Len(qoi_data) - 7, Len(qoi_data))
                = << 0, 0, 0, 0, 0, 0, 0, 1 >>

\* a decode that succeeded after chunks with and without operands
C4_Witness ==
    /\ pc = "done"
    /\ Cardinality(tagPos) >= 2
    /\ operandPos # {}

\* the header of the input is bad in one of the four ways of C5
BadHeaderInput ==
    \/ Len(qoi_data) < 14
    \/ SubSeq(qoi_data, 1, 4) # << 113, 111, 105, 102 >>
    \/ qoi_data[13] \notin {3, 4}
    \/ qoi_data[14] \notin {0, 1}

\* C5: on an input shorter than 14 bytes, or not starting with 'qoif', or with
\* byte 12 not 3 or 4, or byte 13 not 0 or 1, construction raises before any chunk
\* is processed: the decoder never enters the loop, reads no chunk and produces no
\* pixel.
C5_BadHeaderRejected ==
    (pc # "idle" /\ BadHeaderInput) =>
        /\ pc \in {"new", "error"}
        /\ pc = "error" => err \in {"ValueError", "struct.error"}
        /\ pixels = << >>
        /\ tagPos = {}

\* a full-length input with a good magic and channel count, rejected for its
\* colorspace byte
C5_Witness ==
    /\ pc = "error" /\ err = "ValueError"
    /\ Len(qoi_data) >= 14
    /\ SubSeq(qoi_data, 1, 4) = << 113, 111, 105, 102 >>
    /\ qoi_data[13] \in {3, 4}
    /\ qoi_data[14] \notin {0, 1}

\* C6: encode_header returns 14 bytes: 'qoif', width and height as big-endian
\* uint32, 4 or 3 for has_alpha, 1 or 0 for all_linear; decode_header gives the
\* four values back; (800, 600, true, false) <-> 71 6F 69 66 00 00 03 20 00 00 02
\* 58 04 00.
C6_HeaderRoundTrip ==
    /\ hdrPc \in {"encoded", "decoded"} =>
          /\ Len(hdrBytes) = 14
          /\ \A i \in 1 .. 14 : hdrBytes[i] \in 0 .. 255
          /\ SubSeq(hdrBytes, 1, 4) = << 113, 111, 105, 102 >>
          /\ hdrBytes[5] * 16777216 + hdrBytes[6] * 65536 + hdrBytes[7] * 256
                + hdrBytes[8] = hdrIn.width
          /\ hdrBytes[9] * 16777216 + hdrBytes[10] * 65536 + hdrBytes[11] * 256
                + hdrBytes[12] = hdrIn.height
          /\ hdrBytes[13] = (IF hdrIn.has_alpha THEN 4 ELSE 3)
          /\ hdrBytes[14] = (IF hdrIn.all_linear THEN 1 ELSE 0)
          /\ (hdrIn.width = 800 /\ hdrIn.height = 600 /\ hdrIn.has_alpha
              /\ ~hdrIn.all_linear)
                => hdrBytes = << 113, 111, 105, 102, 0, 0, 3, 32, 0, 0, 2, 88, 4, 0 >>
    /\ hdrPc = "decoded" =>
          /\ hdrOut.exc = ""
          /\ hdrOut.width = hdrIn.width /\ hdrOut.height = hdrIn.height
          /\ hdrOut.has_alpha = hdrIn.has_alpha
          /\ hdrOut.all_linear = hdrIn.all_linear

\* the header of an image whose width has its four bytes all different, decoded
C6_Witness ==
    /\ hdrPc = "decoded"
    /\ hdrIn.width = 2147483647 /\ hdrIn.height = 600
    /\ hdrBytes[5] = 127 /\ hdrBytes[8] = 255 /\ hdrBytes[11] = 2 /\ hdrBytes[12] = 88

\* C7: zero dimensions are rejected: a stream whose header has width = 0 or
\* height = 0 is never decoded successfully.
C7_ZeroDimsRejected == pc = "done" => (width # 0 /\ height # 0)

\* C8: truncated input is rejected: construction never succeeds on fewer than 22
\* bytes with a non-empty image, nor when an operand byte of a chunk was taken
\* from the final 8 bytes or from past the end.
C8_TruncatedRejected ==
    pc = "done" =>
        /\ width * height > 0 => Len(qoi_data) >= 22
        /\ \A p \in operandPos : p < Len(qoi_data) - 8

\* a decode that took an operand from the final 8 bytes, and ended in an error
C8_Witness ==
    /\ pc = "error"
    /\ lastOp \in {"RGB", "RGBA", "LUMA"}
    /\ \E p \in operandPos : p >= Len(qoi_data) - 8 /\ p < Len(qoi_data)

\* C9: pack_index accepts exactly 0..63: for an index in [0, 63] it returns the
\* single byte of that value (top two bits 00), for any other integer it raises
\* ValueError('QOI_OP_INDEX allowed range is [0, 63]').
C9_PackIndexRange ==
    (packOp = "pack_index" /\ packPc # "ready") =>
        IF packArg \in 0 .. 63
          THEN /\ packPc = "returned"
               /\ packOut = << packArg >>
               /\ packOut[1] \div 64 = 0
          ELSE /\ packPc = "raised"
               /\ packErr = "QOI_OP_INDEX allowed range is [0, 63]"

\* C10: pack_run accepts exactly 1..62: for a count in [1, 62] it returns the
\* single byte 0xC0 | (count - 1), never 0xFE or 0xFF, and 0xF1 for 50; for any
\* other integer it raises ValueError('QOI_OP_RUN allowed range is [1, 62]').
C10_PackRunRange ==
    (packOp = "pack_run" /\ packPc # "ready") =>
        IF packArg \in 1 .. 62
          THEN /\ packPc = "returned"
               /\ packOut = << 192 + (packArg - 1) >>
               /\ packOut[1] \notin {254, 255}
               /\ packArg = 50 => packOut = << 241 >>
          ELSE /\ packPc = "raised"
               /\ packErr = "QOI_OP_RUN allowed range is [1, 62]"

\* the difference cur - prev of two 8-bit channels as an 8-bit two's complement
\* number
Delta8(cur, prev) ==
    LET m == (cur - prev) % 256
    IN  IF m >= 128 THEN m - 256 ELSE m

\* C11: pack_diff.  With dr, dg, db the channel differences cur - prev in 8-bit
\* two's complement: if all three lie in [-2, 1], pack_diff returns the single
\* byte 0x40 | (dr+2)<<4 | (dg+2)<<2 | (db+2), 0x47 for (255,2,255)->(253,1,0) and
\* 0x4B for (5,5,5)->(3,5,6); otherwise it raises ValueError and returns nothing.
C11_PackDiff ==
    (packOp = "pack_diff" /\ packPc # "ready") =>
        LET dr == Delta8(packThis.r, packPrev.r)
            dg == Delta8(packThis.g, packPrev.g)
            db == Delta8(packThis.b, packPrev.b)
        IN  /\ IF dr \in -2 .. 1 /\ dg \in -2 .. 1 /\ db \in -2 .. 1
                 THEN /\ packPc = "returned"
                      /\ packOut = << 64 + (dr + 2) * 16 + (dg + 2) * 4 + (db + 2) >>
                      /\ packOut[1] \in 64 .. 127
                 ELSE /\ packPc = "raised"
                      /\ packErr # ""
                      /\ packOut = << >>
            /\ (packPrev = RgbaPixel(255, 2, 255, 255)
                /\ packThis = RgbaPixel(253, 1, 0, 255)) => packOut = << 71 >>
            /\ (packPrev = RgbaPixel(5, 5, 5, 255)
                /\ packThis = RgbaPixel(3, 5, 6, 255)) => packOut = << 75 >>

\* pack_diff returned for a pair whose blue channel wraps from 255 to 0
C11_Witness ==
    /\ packOp = "pack_diff" /\ packPc = "returned"
    /\ packPrev = RgbaPixel(255, 2, 255, 255)
    /\ packThis = RgbaPixel(253, 1, 0, 255)
    /\ packOut = << 71 >>

\* C12: pack_luma.  With two's-complement deltas dr, dg, db: if dg is in
\* [-32, 31] and both dr-dg and db-dg are in [-8, 7], pack_luma returns the two
\* bytes 0x80 | (dg+32) and ((dr-dg)+8)<<4 | ((db-dg)+8), B4 3D for
\* (100,100,100)->(115,120,125) and A7 2F for (250,250,250)->(251,1,8); if dg is
\* out of range it raises the green-delta ValueError, and otherwise, if an offset
\* is out of range, the red/blue-offset ValueError.
C12_PackLuma ==
    (packOp = "pack_luma" /\ packPc # "ready") =>
        LET dr == Delta8(packThis.r, packPrev.r)
            dg == Delta8(packThis.g, packPrev.g)
            db == Delta8(packThis.b, packPrev.b)
        IN  /\ IF dg \notin -32 .. 31
                 THEN /\ packPc = "raised"
                      /\ packErr = "QOI_OP_LUMA green delta must be in range [-32, 31]"
                 ELSE IF (dr - dg) \notin -8 .. 7 \/ (db - dg) \notin -8 .. 7
                 THEN /\ packPc = "raised"
                      /\ packErr =
                           "QOI_OP_LUMA red, blue offsets from green must be in range [-8, 7]"
                 ELSE /\ packPc = "returned"
                      /\ packOut = << 128 + (dg + 32),
                                      ((dr - dg) + 8) * 16 + ((db - dg) + 8) >>
                      /\ packOut[1] \in 128 .. 191
                      /\ packOut[2] \in 0 .. 255
            /\ (packPrev = RgbaPixel(100, 100, 100, 255)
                /\ packThis = RgbaPixel(115, 120, 125, 255)) => packOut = << 180, 61 >>
            /\ (packPrev = RgbaPixel(250, 250, 250, 255)
                /\ packThis = RgbaPixel(251, 1, 8, 255)) => packOut = << 167, 47 >>

\* pack_luma returned for a pair whose green and blue channels wrap past 255
C12_Witness ==
    /\ packOp = "pack_luma" /\ packPc = "returned"
    /\ packPrev = RgbaPixel(250, 250, 250, 255)
    /\ packThis = RgbaPixel(251, 1, 8, 255)
    /\ packOut = << 167, 47 >>

\* C13: SignedChar is a single-byte signed integer.  For every integer v,
\* SignedChar(v) lies in [-128, 127] and is congruent to v modulo 256; for every
\* SignedChar s and integer k, s + k and s - k lie in [-128, 127] and are
\* congruent modulo 256 to the exact sum or difference; SignedChar(130) = -126,
\* SignedChar(-130) = 126, SignedChar(120) + 10 = -126, SignedChar(-120) - 10 = 126.
C13_SignedChar ==
    scPc = "returned" =>
        LET exact == IF scOp = "SignedChar" THEN scArg
                     ELSE IF scOp = "__add__" THEN scSelf + scArg
                     ELSE scSelf - scArg
        IN  /\ scOut \in -128 .. 127
            /\ (scOut - exact) % 256 = 0
            /\ (scOp = "SignedChar" /\ scArg = 130) => scOut = -126
            /\ (scOp = "SignedChar" /\ scArg = -130) => scOut = 126
            /\ (scOp = "__add__" /\ scSelf = 120 /\ scArg = 10) => scOut = -126
            /\ (scOp = "__sub__" /\ scSelf = -120 /\ scArg = 10) => scOut = 126

\* C14: for every stream whose header has channel_count = 3 and that QoiDecoder
\* decodes successfully, every decoded pixel has alpha = 255, whatever chunk
\* sequence the stream contains.
C14_OpaqueWithoutAlpha ==
    (pc = "done" /\ ~has_alpha) => \A k \in 1 .. Len(pixels) : pixels[k].a = 255

\* the slot of the lookup table the previous pixel hashes to
SlotOfPx == (px.r * 3 + px.g * 5 + px.b * 7 + px.a * 11) % 64

EncoderOver == encPc \in {"returned", "raised"}

\* the chunk stream of packed_bytes: what stands between header and end marker
EncodedChunks == SubSeq(packed_bytes, HeaderLen + 1, Len(packed_bytes) - EndLen)

\* C16: run splitting.  A maximal run of n pixels equal to the previous pixel
\* is emitted, through pack_run and without error, as floor(n/62) QOI_OP_RUN
\* chunks of length 62 and one of length n mod 62 if that is not zero, every
\* length in [1, 62]; a pending run is flushed before the chunk of the first
\* differing pixel and at the end of input.  Here: an image of n >= 2 equal
\* pixels ends in one QOI_OP_RUN chunk, of length n when the pixels equal the
\* initial previous pixel and n - 1 when they do not.
C16_RunSplitting ==
    (/\ EncoderOver
     /\ Len(rgba_pixels) >= 2
     /\ \A k \in 1 .. Len(rgba_pixels) : rgba_pixels[k] = rgba_pixels[1])
    => /\ encPc = "returned"
       /\ LET n == IF rgba_pixels[1] = RgbaPixel(0, 0, 0, 255)
                     THEN Len(rgba_pixels) ELSE Len(rgba_pixels) - 1
              chunks == EncodedChunks
          IN  /\ n \in 1 .. 62
              /\ Len(chunks) >= 1
              /\ chunks[Len(chunks)] = 192 + (n - 1)
              /\ rgba_pixels[1] = RgbaPixel(0, 0, 0, 255) => Len(chunks) = 1

\* C17: if the first pixel of an image equals the initial previous pixel
\* (0, 0, 0, 255), the encoder emits for it a QOI_OP_RUN of length 1, the byte
\* 0xC0, and not a QOI_OP_INDEX chunk, slot 53 of the fresh table holding
\* (0, 0, 0, 0).  Here: the image goes on with a different pixel or ends, so the
\* run has length 1.
C17_FirstPixelRun ==
    (/\ EncoderOver
     /\ Len(rgba_pixels) >= 1
     /\ rgba_pixels[1] = RgbaPixel(0, 0, 0, 255)
     /\ Len(rgba_pixels) >= 2 => rgba_pixels[2] # rgba_pixels[1])
    => /\ encPc = "returned"
       /\ Len(EncodedChunks) >= 1
       /\ EncodedChunks[1] = 192
       /\ FreshLookup[53] = RgbaPixel(0, 0, 0, 0)

\* C18: precedence.  For every pixel that does not continue a run the encoder
\* emits exactly one chunk, the first applicable of QOI_OP_INDEX, then, with the
\* alpha of the previous pixel, QOI_OP_DIFF, QOI_OP_LUMA, QOI_OP_RGB, and
\* QOI_OP_RGBA only with another alpha, its operand inside the range the pack
\* helper accepts.  Here: an image of one pixel that is not the initial previous
\* pixel; neither pixel of the palette is close enough to (0, 0, 0, 255) for
\* QOI_OP_DIFF or QOI_OP_LUMA, so the chunk is QOI_OP_RGB for alpha 255 and
\* QOI_OP_RGBA otherwise.
C18_Precedence ==
    (/\ EncoderOver
     /\ Len(rgba_pixels) = 1
     /\ rgba_pixels[1] # RgbaPixel(0, 0, 0, 255))
    => /\ encPc = "returned"
       /\ LET cur == rgba_pixels[1]
          IN  EncodedChunks =
                IF cur.a = 255 THEN << 254, cur.r, cur.g, cur.b >>
                ELSE << 255, cur.r, cur.g, cur.b, cur.a >>

\* C19: for a 3-channel input (has_alpha false), from_bytes gives every pixel
\* alpha 255 before encoding, and the encoded stream that results contains no
\* QOI_OP_RGBA chunk.  Here: the stream exists, and for the images of up to
\* three pixels of the palette it has no byte 0xFF at all.
C19_NoRgbaWithoutAlpha ==
    (EncoderOver /\ encCall = "from_bytes" /\ ~encIn.has_alpha)
    => /\ \A k \in 1 .. Len(rgba_pixels) : rgba_pixels[k].a = 255
       /\ encPc = "returned"
       /\ Len(packed_bytes) >= HeaderLen + EndLen
       /\ \A k \in 1 .. Len(EncodedChunks) : EncodedChunks[k] # 255

\* the half of C19 that is from_bytes' own: alpha 255 for every pixel of a
\* 3-channel input
FromBytesOpaque ==
    (EncoderOver /\ encCall = "from_bytes" /\ ~encIn.has_alpha)
    => /\ Len(rgba_pixels) = Len(encIn.pixels)
       /\ \A k \in 1 .. Len(rgba_pixels) : rgba_pixels[k].a = 255

\* C20: tag dispatch.  A chunk whose first byte is 0xFE is always decoded as
\* QOI_OP_RGB and one whose first byte is 0xFF as QOI_OP_RGBA, never as
\* QOI_OP_RUN; so every QOI_OP_RUN the decoder processes appends exactly
\* (byte & 0x3F) + 1 copies of the previous pixel, a number in [1, 62], never 63
\* or 64.
C20_TagDispatch ==
    [][ (pc = "decode" /\ ix < Len(qoi_data) - 8 /\ ix' # ix) =>
          LET b == qoi_data[ix + 1]
              appended == Len(pixels') - Len(pixels)
          IN  /\ b = 254 => /\ lastOp' = "RGB"
                            /\ appended \in {0, 1}
                            /\ pc' = "decode" => (appended = 1 /\ ix' = ix + 4)
              /\ b = 255 => /\ lastOp' = "RGBA"
                            /\ appended \in {0, 1}
                            /\ pc' = "decode" => (appended = 1 /\ ix' = ix + 5)
              /\ lastOp' = "RUN" =>
                    /\ b \in 192 .. 253
                    /\ appended = (b % 64) + 1
                    /\ appended \in 1 .. 62
                    /\ pixels' = pixels \o [k \in 1 .. appended |-> px]
                    /\ ix' = ix + 1 /\ px' = px
    ]_vars

\* a decode that succeeded on 63 pixels: a QOI_OP_RUN of 62, then a
\* QOI_OP_RGB chunk
C20_Witness ==
    /\ pc = "done"
    /\ Len(pixels) = 63
    /\ qoi_data[15] = 253 /\ qoi_data[16] = 254
    /\ lastOp = "RGB"
    /\ \A k \in 1 .. 62 : pixels[k] = RgbaPixel(0, 0, 0, 255)
    /\ pixels[63] = RgbaPixel(10, 100, 200, 255)

\* C21: processing a QOI_OP_RUN chunk leaves all 64 slots of the lookup table
\* and the previous pixel unchanged; it only appends pixels to the output and
\* advances the cursor by one byte.
C21_RunFrame ==
    [][ (/\ pc = "decode" /\ ix < Len(qoi_data) - 8 /\ ix' # ix
         /\ qoi_data[ix + 1] \in 192 .. 253)
        => /\ \A k \in 0 .. 63 : lookup'[k] = lookup[k]
           /\ px' = px
           /\ ix' = ix + 1
           /\ Len(pixels') > Len(pixels)
           /\ SubSeq(pixels', 1, Len(pixels)) = pixels
           /\ <<qoi_data, width, height, has_alpha, all_linear>>'
                 = <<qoi_data, width, height, has_alpha, all_linear>>
    ]_vars

\* the decoder stands after a QOI_OP_RUN that followed a chunk which stored a
\* pixel, the table still holding that pixel and nothing else
C21_Witness ==
    /\ pc = "decode" /\ lastOp = "RUN"
    /\ Len(pixels) >= 3
    /\ px = RgbaPixel(10, 100, 200, 255)
    /\ lookup[63] = px
    /\ \A k \in 0 .. 62 : lookup[k] = RgbaPixel(0, 0, 0, 0)

\* C22: processing a QOI_OP_INDEX chunk does not push to the lookup table: in
\* every reachable decoder state and for every index k in [0, 63], all 64 slots
\* hold the same pixel values after the chunk as before it.
C22_IndexFrame ==
    [][ (/\ pc = "decode" /\ ix < Len(qoi_data) - 8 /\ ix' # ix
         /\ qoi_data[ix + 1] \in 0 .. 63)
        => \A k \in 0 .. 63 : lookup'[k] = lookup[k]
    ]_vars

\* the slot a pixel hashes to
SlotOf(p) == (p.r * 3 + p.g * 5 + p.b * 7 + p.a * 11) % 64

\* C23: during decode the lookup table is mutated only by storing a resolved
\* pixel into its own hash slot: a chunk that resolves pixel p changes at most
\* slot hash(p), setting it to p, and no other slot (a QOI_OP_DIFF, QOI_OP_LUMA,
\* QOI_OP_RGB or QOI_OP_RGBA chunk after a QOI_OP_INDEX chunk does not alter the
\* slot the QOI_OP_INDEX read); hence every slot k always holds (0, 0, 0, 0) or
\* a pixel whose hash is k.
C23_OwnSlotOnly ==
    /\ [][ (pc = "decode" /\ ix' # ix) =>
              \A k \in 0 .. 63 :
                  lookup'[k] # lookup[k] => (k = SlotOf(px') /\ lookup'[k] = px')
       ]_vars
    /\ [](\A k \in 0 .. 63 :
             lookup[k] = RgbaPixel(0, 0, 0, 0) \/ SlotOf(lookup[k]) = k)

\* C24: decoder chunk arithmetic, for previous pixel p.  QOI_OP_DIFF byte b
\* yields ((p.r + ((b>>4)&3) - 2) mod 256, (p.g + ((b>>2)&3) - 2) mod 256,
\* (p.b + (b&3) - 2) mod 256, p.a); QOI_OP_LUMA bytes b, b2 with
\* dg = (b&0x3F) - 32 yield ((p.r + dg + (b2>>4) - 8) mod 256, (p.g + dg) mod 256,
\* (p.b + dg + (b2&0x0F) - 8) mod 256, p.a); QOI_OP_RGB keeps p.a; every channel
\* of every decoded pixel is in [0, 255].
C24_ChunkArithmetic ==
    /\ [][ (pc = "decode" /\ ix < Len(qoi_data) - 8 /\ Len(pixels') = Len(pixels) + 1) =>
              LET b == qoi_data[ix + 1]
                  b2 == qoi_data[ix + 2]
                  dg == (b % 64) - 32
                  cur == pixels'[Len(pixels')]
              IN  /\ b \in 64 .. 127 =>
                        cur = [r |-> (px.r + ((b \div 16) % 4) - 2) % 256,
                               g |-> (px.g + ((b \div 4) % 4) - 2) % 256,
                               b |-> (px.b + (b % 4) - 2) % 256,
                               a |-> px.a]
                  /\ b \in 128 .. 191 =>
                        cur = [r |-> (px.r + dg + (b2 \div 16) - 8) % 256,
                               g |-> (px.g + dg) % 256,
                               b |-> (px.b + dg + (b2 % 16) - 8) % 256,
                               a |-> px.a]
                  /\ b = 254 =>
                        cur = [r |-> qoi_data[ix + 2], g |-> qoi_data[ix + 3],
                               b |-> qoi_data[ix + 4], a |-> px.a]
                  /\ b \in 64 .. 191 \/ b = 254 => px' = cur
       ]_vars
    /\ [](\A k \in 1 .. Len(pixels) :
             /\ pixels[k].r \in 0 .. 255 /\ pixels[k].g \in 0 .. 255
             /\ pixels[k].b \in 0 .. 255 /\ pixels[k].a \in 0 .. 255)

\* the decoder stands after a QOI_OP_LUMA applied to (254, 255, 1, 255), the
\* green channel having wrapped past 255
C24_Witness ==
    /\ pc \in {"decode", "done"} /\ lastOp = "LUMA"
    /\ Len(pixels) >= 2
    /\ pixels[Len(pixels) - 1] = RgbaPixel(254, 255, 1, 255)
    /\ px = RgbaPixel(255, 6, 15, 255)

\* the first chunk of the stream has been read whole, and nothing else
AfterFirstChunk == pc \in {"decode", "done"} /\ tagPos = {14}

\* C25: decoder initial state.  Before the first chunk the previous pixel is
\* (0, 0, 0, 255) for both channel counts and all 64 slots of the lookup table
\* are (0, 0, 0, 0); so a stream whose first chunk is a QOI_OP_RUN of length n
\* starts with n pixels (0, 0, 0, 255), a first QOI_OP_DIFF, QOI_OP_LUMA or
\* QOI_OP_RGB chunk is applied to (0, 0, 0, 255), and no state of an earlier
\* decode influences a later one.
C25_InitialState ==
    /\ (pc = "decode" /\ lastOp = "none") =>
          /\ px = RgbaPixel(0, 0, 0, 255)
          /\ \A k \in 0 .. 63 : lookup[k] = RgbaPixel(0, 0, 0, 0)
          /\ pixels = << >>
          /\ ix = 14
    /\ AfterFirstChunk =>
          LET b == qoi_data[15]
              b2 == qoi_data[16]
              dg == (b % 64) - 32
          IN  /\ b \in 192 .. 253 =>
                    pixels = [k \in 1 .. ((b % 64) + 1) |-> RgbaPixel(0, 0, 0, 255)]
              /\ b \in 64 .. 127 =>
                    pixels = << RgbaPixel((((b \div 16) % 4) - 2) % 256,
                                          (((b \div 4) % 4) - 2) % 256,
                                          ((b % 4) - 2) % 256, 255) >>
              /\ b \in 128 .. 191 =>
                    pixels = << RgbaPixel((dg + (b2 \div 16) - 8) % 256, dg % 256,
                                          (dg + (b2 % 16) - 8) % 256, 255) >>
              /\ b = 254 =>
                    pixels = << RgbaPixel(qoi_data[16], qoi_data[17], qoi_data[18], 255) >>
              /\ b \in 0 .. 63 => pixels = << RgbaPixel(0, 0, 0, 0) >>

\* a second decoder, constructed after an earlier one, has decoded a 3-channel
\* stream whose only chunk is a QOI_OP_RUN of length 2
C25_Witness ==
    /\ earlier = 1 /\ pc = "done" /\ ~has_alpha
    /\ lastOp = "RUN"
    /\ pixels = << RgbaPixel(0, 0, 0, 255), RgbaPixel(0, 0, 0, 255) >>

\* C26: chunk-level round trip.  For every pair of pixels prev, cur for which a
\* pack helper returns bytes, the decoder branch for those bytes, applied with
\* previous pixel prev, reconstructs cur: pack_diff and pack_luma (cur.a =
\* prev.a), pack_rgb (alpha taken from prev), pack_rgba (all four channels);
\* pack_run(n) decodes to n copies of prev and pack_index(k) to the content of
\* slot k; and the first byte any helper returns is dispatched by the decoder to
\* that same chunk form.
C26_ChunkRoundTrip ==
    unpack.pc = "decoded" =>
        /\ unpack.exc = ""
        /\ unpack.ix = Len(packOut)
        /\ packOp = "pack_diff" =>
              /\ unpack.form = "DIFF" /\ packThis.a = packPrev.a
              /\ unpack.pixels = << packThis >> /\ unpack.px = packThis
        /\ packOp = "pack_luma" =>
              /\ unpack.form = "LUMA" /\ packThis.a = packPrev.a
              /\ unpack.pixels = << packThis >> /\ unpack.px = packThis
        /\ packOp = "pack_rgb" =>
              /\ unpack.form = "RGB"
              /\ unpack.pixels = << [packThis EXCEPT !.a = packPrev.a] >>
              /\ unpack.px = [packThis EXCEPT !.a = packPrev.a]
        /\ packOp = "pack_rgba" =>
              /\ unpack.form = "RGBA"
              /\ unpack.pixels = << packThis >> /\ unpack.px = packThis
        /\ packOp = "pack_run" =>
              /\ unpack.form = "RUN"
              /\ unpack.pixels = [k \in 1 .. packArg |-> packPrev]
              /\ unpack.px = packPrev
        /\ packOp = "pack_index" =>
              /\ unpack.form = "INDEX"
              /\ unpack.pixels = << PackLookup[packArg] >>

\* the bytes of pack_luma for a pair whose green and blue channels wrap past
\* 255, decoded back to the current pixel
C26_Witness ==
    /\ unpack.pc = "decoded" /\ packOp = "pack_luma"
    /\ packPrev = RgbaPixel(250, 250, 250, 255)
    /\ packThis = RgbaPixel(251, 1, 8, 255)
    /\ unpack.px = packThis

\* The decoder as specified, for C27: a state is the cursor, the previous pixel,
\* the running index, the output, the slots written so far by chunks other than
\* QOI_OP_RUN and QOI_OP_INDEX, and whether every QOI_OP_INDEX so far addressed
\* a written slot.
SpecifiedStart ==
    [at |-> 14, previous |-> RgbaPixel(0, 0, 0, 255),
     index |-> [k \in 0 .. 63 |-> RgbaPixel(0, 0, 0, 0)],
     out |-> << >>, written |-> {}, clean |-> TRUE]

\* a chunk other than QOI_OP_RUN and QOI_OP_INDEX produced current: append it,
\* store it in its slot, make it the previous pixel
SpecifiedPush(r, current, next) ==
    [r EXCEPT !.at = next, !.previous = current,
              !.index = [r.index EXCEPT ![SlotOf(current)] = current],
              !.out = Append(r.out, current),
              !.written = r.written \cup {SlotOf(current)}]

SpecifiedStep(data, r) ==
    LET b == data[r.at + 1]
        p == r.previous
        dg == (b % 64) - 32
    IN  IF b = 254 THEN
            SpecifiedPush(r, RgbaPixel(data[r.at + 2], data[r.at + 3], data[r.at + 4], p.a),
                          r.at + 4)
        ELSE IF b = 255 THEN
            SpecifiedPush(r, RgbaPixel(data[r.at + 2], data[r.at + 3], data[r.at + 4],
                                       data[r.at + 5]), r.at + 5)
        ELSE IF b < 64 THEN
            [r EXCEPT !.at = r.at + 1, !.previous = r.index[b],
                      !.out = Append(r.out, r.index[b]),
                      !.clean = r.clean /\ b \in r.written]
        ELSE IF b < 128 THEN
            SpecifiedPush(r, RgbaPixel((p.r + ((b \div 16) % 4) - 2) % 256,
                                       (p.g + ((b \div 4) % 4) - 2) % 256,
                                       (p.b + (b % 4) - 2) % 256, p.a), r.at + 1)
        ELSE IF b < 192 THEN
            SpecifiedPush(r, RgbaPixel((p.r + dg + (data[r.at + 2] \div 16) - 8) % 256,
                                       (p.g + dg) % 256,
                                       (p.b + dg + (data[r.at + 2] % 16) - 8) % 256, p.a),
                          r.at + 2)
        ELSE [r EXCEPT !.at = r.at + 1,
                       !.out = r.out \o [k \in 1 .. ((b % 64) + 1) |-> p]]

RECURSIVE SpecifiedRun(_, _, _)
\* the specified decoder run on the chunks that start before position stop
SpecifiedRun(data, r, stop) ==
    IF r.at >= stop THEN r ELSE SpecifiedRun(data, SpecifiedStep(data, r), stop)

\* C27: on every chunk stream in which no QOI_OP_INDEX chunk addresses a slot
\* never written by an earlier non-run chunk, the decoder as coded produces the
\* same pixel sequence as the specified decoder, which after any non-run chunk
\* appends current, sets RunningIndex[hash(current)] := current and previous :=
\* current, and does not push on QOI_OP_INDEX.
C27_CodedEqualsSpecified ==
    pc \in {"decode", "done"} =>
        LET r == SpecifiedRun(qoi_data, SpecifiedStart, ix)
        IN  r.clean => (r.at = ix /\ pixels = r.out /\ px = r.previous)

\* a decode that succeeded on four pixels: the second and the fourth chunk are
\* QOI_OP_INDEX on the slot the first chunk wrote, the third a chunk that
\* changes the pixel read from it
C27_Witness ==
    /\ pc = "done" /\ Len(pixels) = 4
    /\ qoi_data[19] = 63 /\ qoi_data[20] = 71 /\ qoi_data[21] = 63
    /\ pixels[1] = RgbaPixel(10, 100, 200, 255)
    /\ pixels[3] = RgbaPixel(8, 99, 201, 255)
    /\ pixels[4] = pixels[1]
    /\ SpecifiedRun(qoi_data, SpecifiedStart, ix).clean

\* C28: the decode loop terminates on every finite input: each iteration
\* advances the cursor by at least 1 and at most 5 bytes, the cursor never
\* decreases, and the run eventually ends either with a decoder holding the
\* pixels or with an error; no partial pixel result is returned on failure.
C28_Termination ==
    /\ [][ /\ (pc = "decode" /\ ix < Len(qoi_data) - 8) => (ix' - ix) \in 1 .. 5
           /\ pc \in {"new", "decode"} => ix' >= ix
       ]_vars
    /\ (pc = "new") ~> (pc \in {"done", "error"})
    /\ [](pc = "done" => (err = "" /\ Len(pixels) = width * height))
    /\ [](pc = "error" => err # "")

\* a construction that failed with an exception after two or more chunks had
\* yielded pixels
C28_Witness ==
    /\ pc = "error" /\ err # ""
    /\ Cardinality(tagPos) >= 2
    /\ Len(pixels) >= 1

====
